---- MODULE Spec2Model ----
(***************************************************************************)
(* CardForge front-end: the undo/redo history store, the card store and    *)
(* the path utilities of store.js, with the workshop page, the AI page,    *)
(* the global keyboard shortcuts that drive them, the text cleaner and the *)
(* streaming client of ai_client.js.                                       *)
(*                                                                         *)
(* JavaScript values are modelled as tagged records.  Objects and arrays   *)
(* live in a heap of cells, so that two holders of the same object are     *)
(* two references to one cell and a write through one is seen through the  *)
(* other.  The content of a cell is a tree of values (own properties by    *)
(* key): an object with a single holder is written inside its holder, an   *)
(* object that may have several is a reference to a cell of its own.       *)
(***************************************************************************)
EXTENDS Integers, Sequences, FiniteSets, TLC

VARIABLES
    heap,          \* object heap: the content of the object at each address
    stack,         \* history.stack: sequence of values (references to snapshots)
    index,         \* history.index
    maxSize,       \* history.maxSize
    data,          \* card.data
    originalData,  \* card.originalData
    hasChanges,    \* card.hasChanges
    timer,         \* card._checkChangesTimer: a timeout id, or 0 for null
    timeouts,      \* the ids of the timeouts the browser has pending
    image,         \* card.imageFile / card.imageDataUrl: the image, or null
    isParsing,     \* workshopPage.isParsing
    isExporting,   \* workshopPage.isExporting
    awaiting,      \* the handlers that are waiting at an await, each with the
                   \* locals it resumes with
    arg,           \* the caller's reference to the document it last handed to
                   \* push/init; the first argument of deepEqual (SpecEqual);
                   \* the request that was issued (SpecStream)
    ret,           \* the value the last undo()/redo() returned to the caller;
                   \* the second argument of deepEqual (SpecEqual)
    log            \* the operations since the history was last reset (Spec) or
                   \* since the card was loaded (SpecWorkshop, SpecPage,
                   \* SpecAi), each with the document it was given or it
                   \* produced; the callbacks invoked (SpecStream)

vars == <<heap, stack, index, maxSize, data, originalData, hasChanges, timer,
          timeouts, image, isParsing, isExporting, awaiting, arg, ret, log>>

histVars == <<stack, index, maxSize>>
cardVars == <<data, originalData, hasChanges, timer, timeouts>>
pageVars == <<image, isParsing, isExporting, awaiting>>

----------------------------------------------------------------------------
(* Bounds of the model *)

MaxMaxSize == 3      \* history.maxSize ranges over 1..MaxMaxSize and the default
MaxOps == 5          \* operations explored after each reset of the history
MaxEdits == 4        \* workshop operations explored after each load of a card
MaxRecords == 2      \* snapshots recordState makes before the stack is cleared
MaxPathOps == 2      \* calls explored on one document of the path utilities
MaxLen == 2          \* elements of the array literals deepEqual is given
MaxPageOps == 2      \* page operations explored after each load of a card
MaxPending == 2      \* handlers of the page waiting at an await at one time
MaxFrames == 2       \* lines of the event stream that one read delivers
MaxChunks == 2       \* reads of the event stream that deliver lines

\* maxSize: 10 of the history store
DefaultMaxSize == 10

----------------------------------------------------------------------------
(* JavaScript values *)

Undefined == [k |-> "undefined"]
Null == [k |-> "null"]
Str(s) == [k |-> "string", s |-> s]
Num(n) == [k |-> "number", n |-> n]
Ref(a) == [k |-> "ref", a |-> a]
Obj(props) == [k |-> "object", p |-> props]
Arr(props, len) == [k |-> "array", p |-> props, len |-> len]

EmptyProps == << >>
EmptyObj == Obj(EmptyProps)
EmptyArr == Arr(EmptyProps, 0)

IsRef(v) == v.k = "ref"
IsObjectLike(v) == v.k \in {"object", "array"}
\* typeof v === 'object' && v !== null, for a value stored inside a document;
\* Truthy(v) is the outcome of if (v)
Truthy(v) ==
    CASE v.k \in {"undefined", "null"} -> FALSE
      [] v.k = "string" -> v.s # ""
      [] v.k = "number" -> v.n # 0
      [] OTHER -> TRUE

Digits == {"0", "1", "2", "3", "4", "5", "6", "7", "8", "9"}

DigitVal(c) ==
    CASE c = "0" -> 0 [] c = "1" -> 1 [] c = "2" -> 2 [] c = "3" -> 3
      [] c = "4" -> 4 [] c = "5" -> 5 [] c = "6" -> 6 [] c = "7" -> 7
      [] c = "8" -> 8 [] c = "9" -> 9

\* /^\d+$/.test(key): a key is a sequence of one-character strings
IsDigits(key) == Len(key) > 0 /\ \A i \in 1..Len(key) : key[i] \in Digits

RECURSIVE KeyNumber(_)
KeyNumber(key) ==
    IF Len(key) = 0 THEN 0
    ELSE 10 * KeyNumber(SubSeq(key, 1, Len(key) - 1)) + DigitVal(key[Len(key)])

\* an array index is a canonical numeric key: digits without a leading zero
IsArrayIndex(key) == IsDigits(key) /\ (Len(key) = 1 \/ key[1] # "0")

\* current[key]; a string has its characters as properties, and the strings
\* of the model have at most one
GetProp(cur, key) ==
    IF IsObjectLike(cur) /\ key \in DOMAIN cur.p THEN cur.p[key]
    ELSE IF cur.k = "string" /\ cur.s # "" /\ key = <<"0">> THEN cur
    ELSE Undefined

PutKey(props, key, value) ==
    [x \in (DOMAIN props) \cup {key} |-> IF x = key THEN value ELSE props[x]]

\* current[key] = value
PutProp(cur, key, value) ==
    IF cur.k = "array"
    THEN Arr(PutKey(cur.p, key, value),
             IF IsArrayIndex(key) /\ KeyNumber(key) + 1 > cur.len
             THEN KeyNumber(key) + 1 ELSE cur.len)
    ELSE Obj(PutKey(cur.p, key, value))

----------------------------------------------------------------------------
(* store.js: path utilities.  A path is a sequence of one-character strings, *)
(* a key is the sub-sequence between two dots.                               *)

RECURSIVE DigitRun(_, _)
DigitRun(path, i) ==
    IF i <= Len(path) /\ path[i] \in Digits THEN 1 + DigitRun(path, i + 1) ELSE 0

\* path.replace(/\[(\d+)\]/g, '.$1')
RECURSIVE ReplaceIndices(_, _)
ReplaceIndices(path, i) ==
    IF i > Len(path) THEN << >>
    ELSE LET n == DigitRun(path, i + 1) IN
         IF path[i] = "[" /\ n > 0 /\ i + n + 1 <= Len(path) /\ path[i + n + 1] = "]"
         THEN <<".">> \o SubSeq(path, i + 1, i + n) \o ReplaceIndices(path, i + n + 2)
         ELSE <<path[i]>> \o ReplaceIndices(path, i + 1)

\* s.split('.')
RECURSIVE SplitDots(_)
SplitDots(s) ==
    IF \A i \in 1..Len(s) : s[i] # "."
    THEN <<s>>
    ELSE LET d == CHOOSE i \in 1..Len(s) :
                      s[i] = "." /\ \A j \in 1..(i - 1) : s[j] # "."
         IN <<SubSeq(s, 1, d - 1)>> \o SplitDots(SubSeq(s, d + 1, Len(s)))

PathKeys(path) == SplitDots(ReplaceIndices(path, 1))

\* the loop of getByPath over the remaining keys
RECURSIVE GetIn(_, _)
GetIn(current, keys) ==
    IF Len(keys) = 0 THEN current
    ELSE IF current.k \in {"null", "undefined"} THEN Undefined
    ELSE GetIn(GetProp(current, keys[1]), Tail(keys))

\* getByPath(obj, path), obj given by its content
getByPath(obj, path) == GetIn(obj, PathKeys(path))

\* a container that is an object whatever the next key
FreshContainer_alwaysObject(nextKey) == EmptyObj

\* /^\d+$/.test(nextKey) ? [] : {}
FreshContainer(nextKey) == IF IsDigits(nextKey) THEN EmptyArr ELSE EmptyObj

\* the loop of setByPath over the remaining keys, from `current`, in heap h.
\* The call writes in place: the result is the heap after it and, as val,
\* `current` after it (a reference stays the reference it was).
RECURSIVE SetIn(_, _, _, _, _)
SetIn(h, current, keys, value, autoCreate) ==
    IF IsRef(current)
    THEN LET r == SetIn(h, h[current.a], keys, value, autoCreate)
         IN [heap |-> [r.heap EXCEPT ![current.a] = r.val], val |-> current]
    ELSE IF Len(keys) = 1
    THEN [heap |-> h, val |-> PutProp(current, keys[1], value)]
    ELSE LET key == keys[1]
             nextKey == keys[2]
             child == GetProp(current, key)
             fresh == FreshContainer(nextKey)
             \* the rest of the loop from the container c left at current[key]
             descend(c) ==
                 LET r == SetIn(h, c, Tail(keys), value, autoCreate)
                 IN [heap |-> r.heap, val |-> PutProp(current, key, r.val)]
         IN IF child.k \notin {"undefined", "null"} /\ ~IsObjectLike(child)
                /\ ~IsRef(child)
            THEN IF ~autoCreate THEN [heap |-> h, val |-> current]
                 ELSE descend(fresh)
            ELSE IF child.k \in {"undefined", "null"}
            THEN IF ~autoCreate THEN [heap |-> h, val |-> current]
                 ELSE descend(fresh)
            ELSE descend(child)

\* setByPath that splits the path at the dots only
setByPath_dotsOnly(h, obj, path, value, autoCreate) ==
    SetIn(h, obj, SplitDots(path), value, autoCreate).heap

\* setByPath that creates what is missing whatever autoCreate says
setByPath_alwaysCreate(h, obj, path, value, autoCreate) ==
    SetIn(h, obj, PathKeys(path), value, TRUE).heap

\* setByPath(obj, path, value, autoCreate) on the object obj refers to: the
\* heap after the call
setByPath(h, obj, path, value, autoCreate) ==
    SetIn(h, obj, PathKeys(path), value, autoCreate).heap

\* the copy deepClone builds of a value: new objects all the way down
RECURSIVE CloneValue(_, _)
CloneValue(h, v) ==
    IF IsRef(v) THEN CloneValue(h, h[v.a])
    ELSE IF v.k = "object" THEN Obj([x \in DOMAIN v.p |-> CloneValue(h, v.p[x])])
    ELSE IF v.k = "array"
    THEN Arr([x \in DOMAIN v.p |-> CloneValue(h, v.p[x])], v.len)
    ELSE v

\* a comparison that does not compare the number of keys
RECURSIVE deepEqual_noCount(_, _)
deepEqual_noCount(a, b) ==
    IF ~IsObjectLike(a) /\ ~IsObjectLike(b) /\ a = b THEN TRUE
    ELSE IF a.k = "null" \/ b.k = "null" THEN FALSE
    ELSE IF ~IsObjectLike(a) \/ ~IsObjectLike(b) THEN FALSE
    ELSE IF (a.k = "array") # (b.k = "array") THEN FALSE
    ELSE \A key \in DOMAIN a.p :
            key \in DOMAIN b.p /\ deepEqual_noCount(a.p[key], b.p[key])

RECURSIVE deepEqual(_, _)
deepEqual(a, b) ==
    \* a === b: for two objects this is identity, which the comparison of their
    \* properties below decides the same way
    IF ~IsObjectLike(a) /\ ~IsObjectLike(b) /\ a = b THEN TRUE
    ELSE IF a.k = "null" \/ b.k = "null" THEN FALSE
    ELSE IF ~IsObjectLike(a) \/ ~IsObjectLike(b) THEN FALSE
    ELSE IF (a.k = "array") # (b.k = "array") THEN FALSE
    ELSE IF Cardinality(DOMAIN a.p) # Cardinality(DOMAIN b.p) THEN FALSE
    ELSE \A key \in DOMAIN a.p :
            key \in DOMAIN b.p /\ deepEqual(a.p[key], b.p[key])

----------------------------------------------------------------------------
(* The object heap *)

EmptyHeap == << >>

\* a reference is written somewhere inside the value
RECURSIVE HasRef(_)
HasRef(v) ==
    \/ IsRef(v)
    \/ IsObjectLike(v) /\ \E x \in DOMAIN v.p : HasRef(v.p[x])

\* the content a value stands for: the primitive itself, or the object with
\* the content of each property, references followed
RECURSIVE Content(_, _)
Content(h, v) ==
    IF IsRef(v) THEN Content(h, h[v.a])
    ELSE IF HasRef(v)
    THEN [v EXCEPT !.p = [x \in DOMAIN v.p |-> Content(h, v.p[x])]]
    ELSE v

SeqRange(s) == {s[i] : i \in DOMAIN s}

\* a new object literal with the given content
NewObject(h, content) == [heap |-> Append(h, content), val |-> Ref(Len(h) + 1)]

\* the elements of a set, one after the other
RECURSIVE SetToSeq(_)
SetToSeq(S) ==
    IF S = {} THEN << >>
    ELSE LET x == CHOOSE y \in S : TRUE IN <<x>> \o SetToSeq(S \ {x})

deepClone_alias(h, obj) == [heap |-> h, val |-> obj]

\* deepClone that copies the object but not the objects and arrays in its
\* properties: the copy refers to the same ones (here they get a cell of
\* their own, which both the object and its copy refer to)
deepClone_shallow(h, obj) ==
    IF ~IsRef(obj) THEN [heap |-> h, val |-> obj]
    ELSE LET c == h[obj.a]
             ks == SetToSeq({x \in DOMAIN c.p : IsObjectLike(c.p[x])})
             shared(x) == Ref(Len(h) + (CHOOSE i \in DOMAIN ks : ks[i] = x))
             c2 == [c EXCEPT !.p = [x \in DOMAIN c.p |->
                                      IF IsObjectLike(c.p[x]) THEN shared(x)
                                      ELSE c.p[x]]]
         IN [heap |-> [h EXCEPT ![obj.a] = c2]
                      \o [i \in DOMAIN ks |-> c.p[ks[i]]] \o <<c2>>,
             val |-> Ref(Len(h) + Len(ks) + 1)]

\* deepClone(obj): a primitive is returned as it is, an object is copied
\* into a new object
deepClone(h, obj) ==
    IF IsRef(obj) THEN NewObject(h, CloneValue(h, obj))
    ELSE [heap |-> h, val |-> obj]

----------------------------------------------------------------------------
(* store.js: Alpine.store('history'); initHistoryStore of undo_redo.js        *)
(* registers the same code.  A method takes the stores (with the heap they   *)
(* live in) as a record and gives the stores after the call, `ret` being     *)
(* what the call returned.                                                   *)

\* array.slice(0, end)
Slice0(s, end) ==
    IF end >= 0 THEN SubSeq(s, 1, IF end < Len(s) THEN end ELSE Len(s))
    ELSE SubSeq(s, 1, IF Len(s) + end > 0 THEN Len(s) + end ELSE 0)

\* array[i]
At(s, i) == IF i >= 0 /\ i < Len(s) THEN s[i + 1] ELSE Undefined

\* array.shift()
Shift(s) == IF Len(s) = 0 THEN s ELSE Tail(s)

canUndo_fromZero(H) == H.index >= 0

canUndo(H) == H.index > 0

canRedo(H) == H.index < Len(H.stack) - 1

\* push with its tail changed: the stack is limited only if `limit`, the
\* eviction drops the oldest or else the newest entry and moves the index
\* back by `back`, and the index is set `top` above the last entry
PushVariant(H, state, limit, dropOldest, back, top) ==
    LET st1 == IF H.index < Len(H.stack) - 1
               THEN Slice0(H.stack, H.index + 1)
               ELSE H.stack
        c == deepClone(H.heap, state)
        st2 == Append(st1, c.val)
        ix2 == Len(st2) - 1 + top
    IN IF limit /\ Len(st2) > H.maxSize
       THEN [H EXCEPT !.heap = c.heap,
                      !.stack = IF dropOldest THEN Shift(st2)
                                ELSE SubSeq(st2, 1, Len(st2) - 1),
                      !.index = ix2 - back, !.ret = Undefined]
       ELSE [H EXCEPT !.heap = c.heap, !.stack = st2, !.index = ix2,
                      !.ret = Undefined]

\* push that forgets this.index-- after this.stack.shift()
history_push_noDecrement(H, state) == PushVariant(H, state, TRUE, TRUE, 0, 0)

\* push that never limits the stack
history_push_unbounded(H, state) == PushVariant(H, state, FALSE, TRUE, 1, 0)

\* push that evicts with this.stack.pop() instead of this.stack.shift()
history_push_evictNewest(H, state) == PushVariant(H, state, TRUE, FALSE, 1, 0)

\* push that sets this.index = this.stack.length
history_push_indexPastTop(H, state) == PushVariant(H, state, TRUE, TRUE, 1, 1)

\* push that keeps the redo branch: no slice before the append
history_push_keepRedo(H, state) ==
    LET c == deepClone(H.heap, state)
        st2 == Append(H.stack, c.val)
    IN IF Len(st2) > H.maxSize
       THEN [H EXCEPT !.heap = c.heap, !.stack = Shift(st2),
                      !.index = Len(st2) - 2, !.ret = Undefined]
       ELSE [H EXCEPT !.heap = c.heap, !.stack = st2, !.index = Len(st2) - 1,
                      !.ret = Undefined]

history_push(H, state) ==
    LET st1 == IF H.index < Len(H.stack) - 1
               THEN Slice0(H.stack, H.index + 1)
               ELSE H.stack
        c == deepClone(H.heap, state)
        st2 == Append(st1, c.val)
        ix2 == Len(st2) - 1
    IN IF Len(st2) > H.maxSize
       THEN [H EXCEPT !.heap = c.heap, !.stack = Shift(st2), !.index = ix2 - 1,
                      !.ret = Undefined]
       ELSE [H EXCEPT !.heap = c.heap, !.stack = st2, !.index = ix2,
                      !.ret = Undefined]

\* undo that reads stack[index] before it moves the index
history_undo_readBeforeMove(H) ==
    IF ~canUndo(H) THEN [H EXCEPT !.ret = Null]
    ELSE LET c == deepClone(H.heap, At(H.stack, H.index))
         IN [H EXCEPT !.heap = c.heap, !.index = H.index - 1, !.ret = c.val]

history_undo(H) ==
    IF ~canUndo(H) THEN [H EXCEPT !.ret = Null]
    ELSE LET c == deepClone(H.heap, At(H.stack, H.index - 1))
         IN [H EXCEPT !.heap = c.heap, !.index = H.index - 1, !.ret = c.val]

\* a redo that reads the entry at the index before it moves the index
history_redo_readBeforeMove(H) ==
    IF ~canRedo(H) THEN [H EXCEPT !.ret = Null]
    ELSE LET c == deepClone(H.heap, At(H.stack, H.index))
         IN [H EXCEPT !.heap = c.heap, !.index = H.index + 1, !.ret = c.val]

history_redo(H) ==
    IF ~canRedo(H) THEN [H EXCEPT !.ret = Null]
    ELSE LET c == deepClone(H.heap, At(H.stack, H.index + 1))
         IN [H EXCEPT !.heap = c.heap, !.index = H.index + 1, !.ret = c.val]

history_clear(H) == [H EXCEPT !.stack = << >>, !.index = -1, !.ret = Undefined]

\* init that forgets this.clear()
history_init_noClear(H, initialState) == history_push(H, initialState)

history_init(H, initialState) == history_push(history_clear(H), initialState)

----------------------------------------------------------------------------
(* store.js: Alpine.store('card'), on the same record of the stores *)

\* deepEqual(x, y) of two values that may be references to objects
DeepEqualIn(h, x, y) == x = y \/ deepEqual(Content(h, x), Content(h, y))

card_loadCard(S, card) ==
    LET c == deepClone(S.heap, card)
    IN [S EXCEPT !.heap = c.heap, !.data = card, !.originalData = c.val,
                 !.hasChanges = FALSE]

\* setTimeout(callback, 500): the browser returns a positive id that no
\* pending timeout has and that is not the id it returned last
SetTimeout(pending, lastId) ==
    LET id == CHOOSE n \in 1..(Cardinality(pending) + 2) :
                  /\ n \notin pending \cup {lastId}
                  /\ \A m \in 1..(n - 1) : m \in pending \cup {lastId}
    IN [timeouts |-> pending \cup {id}, id |-> id]

\* clearTimeout(id)
ClearTimeout(pending, id) == pending \ {id}

\* checkChanges that schedules without clearing the previous timeout
card_checkChanges_noClear(S) ==
    LET t == SetTimeout(S.timeouts, S.timer)
    IN [S EXCEPT !.hasChanges = TRUE, !.timeouts = t.timeouts, !.timer = t.id]

card_checkChanges(S) ==
    LET cleared == IF S.timer # 0 THEN ClearTimeout(S.timeouts, S.timer)
                   ELSE S.timeouts
        t == SetTimeout(cleared, S.timer)
    IN [S EXCEPT !.hasChanges = TRUE, !.timeouts = t.timeouts, !.timer = t.id]

\* a callback that forgets the negation of deepEqual
card_checkChangesTimeout_noNegation(S, id) ==
    [S EXCEPT !.hasChanges = DeepEqualIn(S.heap, S.data, S.originalData),
              !.timer = 0,
              !.timeouts = S.timeouts \ {id}]

\* the callback checkChanges handed to setTimeout, run when timeout id expires
card_checkChangesTimeout(S, id) ==
    [S EXCEPT !.hasChanges = ~DeepEqualIn(S.heap, S.data, S.originalData),
              !.timer = 0,
              !.timeouts = S.timeouts \ {id}]

card_updateField(S, path, value) ==
    IF ~Truthy(S.data) THEN S
    ELSE card_checkChanges(
             [S EXCEPT !.heap = setByPath(S.heap, S.data, path, value, TRUE)])

\* getField(path): `ret` is the value returned
card_getField(S, path) ==
    IF ~Truthy(S.data) THEN [S EXCEPT !.ret = Undefined]
    ELSE [S EXCEPT !.ret = getByPath(Content(S.heap, S.data), path)]

\* markSaved that stores card.data itself as originalData
card_markSaved_alias(S) ==
    [S EXCEPT !.originalData = S.data, !.hasChanges = FALSE]

card_markSaved(S) ==
    LET c == deepClone(S.heap, S.data)
    IN [S EXCEPT !.heap = c.heap, !.originalData = c.val, !.hasChanges = FALSE]

\* reset that hands out originalData itself as the new data
card_reset_alias(S) ==
    IF Truthy(S.originalData)
    THEN [S EXCEPT !.data = S.originalData, !.hasChanges = FALSE]
    ELSE S

card_reset(S) ==
    IF Truthy(S.originalData)
    THEN LET c == deepClone(S.heap, S.originalData)
         IN [S EXCEPT !.heap = c.heap, !.data = c.val, !.hasChanges = FALSE]
    ELSE S

\* clear that empties the history as well
card_clear_withHistory(S) ==
    [S EXCEPT !.data = Null, !.originalData = Null, !.hasChanges = FALSE,
              !.stack = << >>, !.index = -1]

card_clear(S) ==
    [S EXCEPT !.data = Null, !.originalData = Null, !.hasChanges = FALSE]

\* the stores of the current state, living in heap h
Stores(h) ==
    [heap |-> h, stack |-> stack, index |-> index, maxSize |-> maxSize,
     ret |-> Undefined, data |-> data, originalData |-> originalData,
     hasChanges |-> hasChanges, timer |-> timer, timeouts |-> timeouts]

----------------------------------------------------------------------------
(* Documents of the model: a card { data: { name: <name> } } *)

DataKey == <<"d", "a", "t", "a">>
NameKey == <<"n", "a", "m", "e">>
DescriptionKey == <<"d", "e", "s", "c", "r", "i", "p", "t", "i", "o", "n">>
PersonalityKey == <<"p", "e", "r", "s", "o", "n", "a", "l", "i", "t", "y">>
ScenarioKey == <<"s", "c", "e", "n", "a", "r", "i", "o">>
FirstMesKey == <<"f", "i", "r", "s", "t", "_", "m", "e", "s">>
NamePath == DataKey \o <<".">> \o NameKey      \* 'data.name'
DocNames == {"A", "B"}
Card(name) == Obj(DataKey :> Obj(NameKey :> Str(name)))
Docs == {Card(n) : n \in DocNames}

\* createEmptyCard(), as far as the fields of the model's documents go
createEmptyCard == Card("")

card_initNew(S) ==
    LET o == NewObject(S.heap, createEmptyCard)
        c == deepClone(o.heap, o.val)
    IN [S EXCEPT !.heap = c.heap, !.data = o.val, !.originalData = c.val,
                 !.hasChanges = FALSE]

Op(name, d) == [op |-> name, d |-> d]

StackContents == [i \in DOMAIN stack |-> Content(heap, stack[i])]

Init ==
    /\ heap = EmptyHeap
    /\ stack = << >>
    /\ index = -1
    /\ maxSize \in (1..MaxMaxSize) \cup {DefaultMaxSize}
    /\ data = Null
    /\ originalData = Null
    /\ hasChanges = FALSE
    /\ timer = 0
    /\ timeouts = {}
    /\ image = Null
    /\ isParsing = FALSE
    /\ isExporting = FALSE
    /\ awaiting = << >>
    /\ arg = Undefined
    /\ ret = Undefined
    /\ log = << >>

----------------------------------------------------------------------------
(* A client of the history store: any sequence of push, undo, redo, clear    *)
(* and init, and writes to the documents it holds.                           *)

\* Objects have no observable address: after each handler the objects no
\* holder references are dropped and the live ones are renumbered in the
\* order of their first holder (stack entries, arg, ret, card.data,
\* card.originalData, each followed by the objects it refers to), so that
\* one program state is one model state.
\* the references written inside a value, in the order of its properties
RECURSIVE RefsIn(_)
RECURSIVE RefsOfProps(_, _)
RefsIn(v) ==
    IF IsRef(v) THEN <<v>>
    ELSE IF HasRef(v) THEN RefsOfProps(v, SetToSeq(DOMAIN v.p))
    ELSE << >>
RefsOfProps(v, ks) ==
    IF Len(ks) = 0 THEN << >>
    ELSE RefsIn(v.p[ks[1]]) \o RefsOfProps(v, Tail(ks))

RECURSIVE LiveOrder(_, _, _)
LiveOrder(h, seq, seen) ==
    IF Len(seq) = 0 THEN seen
    ELSE IF IsRef(seq[1]) /\ seq[1].a \notin SeqRange(seen)
    THEN LiveOrder(h, RefsIn(h[seq[1].a]) \o Tail(seq), Append(seen, seq[1].a))
    ELSE LiveOrder(h, Tail(seq), seen)

RECURSIVE Renamed(_, _)
Renamed(order, v) ==
    IF IsRef(v) THEN Ref(CHOOSE n \in DOMAIN order : order[n] = v.a)
    ELSE IF HasRef(v)
    THEN [v EXCEPT !.p = [x \in DOMAIN v.p |-> Renamed(order, v.p[x])]]
    ELSE v

Compact(h, order) == [n \in DOMAIN order |-> Renamed(order, h[order[n]])]

Commit(h, st, a, r, dt, od) ==
    LET order == LiveOrder(h, st \o <<a, r, dt, od>>, << >>)
    IN /\ heap' = Compact(h, order)
       /\ stack' = [i \in DOMAIN st |-> Renamed(order, st[i])]
       /\ arg' = Renamed(order, a)
       /\ ret' = Renamed(order, r)
       /\ data' = Renamed(order, dt)
       /\ originalData' = Renamed(order, od)

\* the stores after a handler that left them as r
StoresState(r, newArg, newRet) ==
    /\ Commit(r.heap, r.stack, newArg, newRet, r.data, r.originalData)
    /\ index' = r.index
    /\ maxSize' = r.maxSize
    /\ hasChanges' = r.hasChanges
    /\ timer' = r.timer
    /\ timeouts' = r.timeouts

\* the state after a handler that left the stores as r and that touches
\* neither the image nor the page
StoresResult(r, newArg, newRet) ==
    /\ StoresState(r, newArg, newRet)
    /\ UNCHANGED pageVars

Push(d) ==
    /\ Len(log) < MaxOps
    /\ LET o == NewObject(heap, d)
           r == history_push(Stores(o.heap), o.val)
       IN StoresResult(r, o.val, ret)
    /\ log' = Append(log, Op("push", d))

Undo ==
    /\ Len(log) < MaxOps
    /\ LET r == history_undo(Stores(heap))
       IN /\ StoresResult(r, arg, r.ret)
          /\ log' = Append(log, Op("undo", Content(r.heap, r.ret)))

Redo ==
    /\ Len(log) < MaxOps
    /\ LET r == history_redo(Stores(heap))
       IN /\ StoresResult(r, arg, r.ret)
          /\ log' = Append(log, Op("redo", Content(r.heap, r.ret)))

Clear ==
    /\ StoresResult(history_clear(Stores(heap)), arg, ret)
    /\ log' = <<Op("clear", Undefined)>>

InitHistory(d) ==
    /\ LET o == NewObject(heap, d)
           r == history_init(Stores(o.heap), o.val)
       IN StoresResult(r, o.val, ret)
    /\ log' = <<Op("init", d)>>

\* the caller writes to the document it handed to push or init
MutateArg(name) ==
    /\ IsRef(arg)
    /\ heap' = setByPath(heap, arg, NamePath, Str(name), TRUE)
    /\ Content(heap, arg) # Content(heap', arg)
    /\ UNCHANGED <<histVars, cardVars, pageVars, arg, ret, log>>

\* the caller writes to the document undo or redo returned
MutateRet(name) ==
    /\ IsRef(ret)
    /\ heap' = setByPath(heap, ret, NamePath, Str(name), TRUE)
    /\ Content(heap, ret) # Content(heap', ret)
    /\ UNCHANGED <<histVars, cardVars, pageVars, arg, ret, log>>

Next ==
    \/ \E d \in Docs : Push(d)
    \/ Undo
    \/ Redo
    \/ Clear
    \/ \E d \in Docs : InitHistory(d)
    \/ \E n \in DocNames : MutateArg(n)
    \/ \E n \in DocNames : MutateRet(n)

Spec == Init /\ [][Next]_vars

----------------------------------------------------------------------------
(* The workshop: preview_panel.js workshopPage, pages/ai.js aiPage, the      *)
(* keydown handler of main.js and the toolbar of undo_redo.js, on both       *)
(* stores.  The log holds the document after each operation since the load.  *)

Logged(opName, r) == log' = Append(log, Op(opName, Content(r.heap, r.data)))

\* processFile once parseCard has resolved with the card d
ProcessFileDone(d) ==
    LET o == NewObject(heap, d)
        r == history_clear(card_loadCard(Stores(o.heap), o.val))
    IN /\ StoresResult(r, arg, ret)
       /\ log' = <<Op("load", d)>>

\* aiPage.useGeneratedCard with generatedCard = d
UseGeneratedCard(d) ==
    LET o == NewObject(heap, d)
        s1 == card_loadCard(Stores(o.heap), o.val)
        c == deepClone(s1.heap, o.val)
        r == history_init([s1 EXCEPT !.heap = c.heap], c.val)
    IN /\ StoresState(r, arg, ret)
       /\ image' = Null
       /\ UNCHANGED <<isParsing, isExporting, awaiting>>
       /\ log' = <<Op("load", d)>>

\* workshopPage.updateField(path, value)
WorkshopUpdateField(path, value) ==
    /\ Len(log) <= MaxEdits
    /\ LET c == deepClone(heap, data)
           s1 == history_push(Stores(c.heap), c.val)
           r == card_updateField(s1, path, value)
       IN /\ StoresResult(r, arg, ret)
          /\ Logged("edit", r)

\* what both undo handlers and both redo handlers do with the state the
\* history returned
ApplyHistoryState(r) ==
    IF Truthy(r.ret) THEN card_checkChanges([r EXCEPT !.data = r.ret]) ELSE r

\* keydown: Ctrl/Cmd+Z outside an input
KeyUndo ==
    /\ Len(log) <= MaxEdits
    /\ canUndo(Stores(heap)) /\ Truthy(data)
    /\ LET r == ApplyHistoryState(history_undo(Stores(heap)))
       IN StoresResult(r, arg, ret) /\ Logged("undo", r)

\* keydown: Ctrl/Cmd+Shift+Z or Ctrl+Y outside an input
KeyRedo ==
    /\ Len(log) <= MaxEdits
    /\ canRedo(Stores(heap)) /\ Truthy(data)
    /\ LET r == ApplyHistoryState(history_redo(Stores(heap)))
       IN StoresResult(r, arg, ret) /\ Logged("redo", r)

\* undoRedoToolbar.undo()
ToolbarUndo ==
    /\ Len(log) <= MaxEdits
    /\ canUndo(Stores(heap))
    /\ LET r == ApplyHistoryState(history_undo(Stores(heap)))
       IN StoresResult(r, arg, ret) /\ Logged("undo", r)

\* undoRedoToolbar.redo()
ToolbarRedo ==
    /\ Len(log) <= MaxEdits
    /\ canRedo(Stores(heap))
    /\ LET r == ApplyHistoryState(history_redo(Stores(heap)))
       IN StoresResult(r, arg, ret) /\ Logged("redo", r)

\* the timeout of checkChanges expires
CheckChangesTimeout ==
    /\ \E id \in timeouts :
           StoresResult(card_checkChangesTimeout(Stores(heap), id), arg, ret)
    /\ UNCHANGED log

NextWorkshop ==
    \/ \E d \in Docs : ProcessFileDone(d)
    \/ \E d \in Docs : UseGeneratedCard(d)
    \/ \E n \in DocNames : WorkshopUpdateField(NamePath, Str(n))
    \/ KeyUndo
    \/ KeyRedo
    \/ ToolbarUndo
    \/ ToolbarRedo
    \/ CheckChangesTimeout

SpecWorkshop == Init /\ [][NextWorkshop]_vars

----------------------------------------------------------------------------
(* The workshop page with its asynchronous handlers: a handler runs to its   *)
(* await in one step and waits in `awaiting`; the promise it awaits resolves  *)
(* or rejects in a later step, with any other handler in between.  The log   *)
(* holds, since the card was loaded, created or closed, the document after   *)
(* each operation, and for an export the document that was sent.             *)

\* the files the user picks or drops: a PNG with a card embedded, a JSON card
\* and a file that is neither
Files ==
    {[valid |-> TRUE, png |-> TRUE, card |-> Card("A")],
     [valid |-> TRUE, png |-> FALSE, card |-> Card("B")],
     [valid |-> FALSE, png |-> FALSE, card |-> Null]}

\* the name the user types: a blank
PageNames == {" "}

\* the handlers of a kind that are waiting
Waiting(kind) == {i \in DOMAIN awaiting : awaiting[i].kind = kind}

\* awaiting without its i-th handler
Resumed(i) == SubSeq(awaiting, 1, i - 1) \o SubSeq(awaiting, i + 1, Len(awaiting))

\* a processFile that does not look at isParsing
ProcessFile_noLock(file) ==
    /\ Len(awaiting) < MaxPending
    /\ file.valid
    /\ isParsing' = TRUE
    /\ awaiting' = Append(awaiting, [kind |-> "parse", file |-> file])
    /\ UNCHANGED <<heap, histVars, cardVars, image, isExporting, arg, ret, log>>

\* processFile(file) up to await parseCard(file); a call that returns at
\* once (isParsing, or a file of another type) changes nothing
ProcessFile(file) ==
    /\ Len(awaiting) < MaxPending
    /\ ~isParsing
    /\ file.valid
    /\ isParsing' = TRUE
    /\ awaiting' = Append(awaiting, [kind |-> "parse", file |-> file])
    /\ UNCHANGED <<heap, histVars, cardVars, image, isExporting, arg, ret, log>>

\* a processFile that loads the card and leaves the history as it is
ParseResolved_keepHistory ==
    \E i \in Waiting("parse") :
        LET file == awaiting[i].file
            o == NewObject(heap, file.card)
            r == card_loadCard(Stores(o.heap), o.val)
        IN /\ StoresState(r, arg, ret)
           /\ image' = IF file.png THEN Str("f") ELSE Null
           /\ isParsing' = FALSE
           /\ awaiting' = Resumed(i)
           /\ log' = <<Op("load", file.card)>>
           /\ UNCHANGED isExporting

\* parseCard (and readAsDataURL) resolved: the rest of the try block and
\* the finally block
ParseResolved ==
    \E i \in Waiting("parse") :
        LET file == awaiting[i].file
            o == NewObject(heap, file.card)
            r == history_clear(card_loadCard(Stores(o.heap), o.val))
        IN /\ StoresState(r, arg, ret)
           /\ image' = IF file.png THEN Str("f") ELSE Null
           /\ isParsing' = FALSE
           /\ awaiting' = Resumed(i)
           /\ log' = <<Op("load", file.card)>>
           /\ UNCHANGED isExporting

\* parseCard rejected: the catch block and the finally block
ParseRejected ==
    \E i \in Waiting("parse") :
        /\ isParsing' = FALSE
        /\ awaiting' = Resumed(i)
        /\ UNCHANGED <<heap, histVars, cardVars, image, isExporting, arg, ret, log>>

\* exportPNG() up to await injectCard(imageFile, card.data, ...), which
\* serialises card.data before it sends; imageFile and imageDataUrl are set
\* and cleared together by the handlers of this page, so dataURLtoFile is
\* not awaited
ExportPNG ==
    /\ Len(awaiting) < MaxPending
    /\ ~isExporting
    /\ Truthy(data)
    /\ Truthy(image)
    /\ isExporting' = TRUE
    /\ awaiting' = Append(awaiting, [kind |-> "export", sent |-> Content(heap, data)])
    /\ UNCHANGED <<heap, histVars, cardVars, image, isParsing, arg, ret, log>>

\* injectCard resolved: download, markSaved and the finally block
ExportResolved ==
    \E i \in Waiting("export") :
        LET r == card_markSaved(Stores(heap))
        IN /\ StoresState(r, arg, ret)
           /\ isExporting' = FALSE
           /\ awaiting' = Resumed(i)
           /\ log' = Append(log, Op("exportPNG", awaiting[i].sent))
           /\ UNCHANGED <<image, isParsing>>

\* injectCard rejected: the catch block and the finally block
ExportRejected ==
    \E i \in Waiting("export") :
        /\ isExporting' = FALSE
        /\ awaiting' = Resumed(i)
        /\ UNCHANGED <<heap, histVars, cardVars, image, isParsing, arg, ret, log>>

\* the handlers that add to the log do so while it is short
MayLog == Len(log) <= MaxPageOps

\* handleImageChange(event) with a PNG file picked, up to await
\* readAsDataURL(file); without a file or with one of another type it
\* returns at once
HandleImageChange ==
    /\ Len(awaiting) < MaxPending
    /\ awaiting' = Append(awaiting, [kind |-> "image", file |-> Str("g")])
    /\ UNCHANGED <<heap, histVars, cardVars, image, isParsing, isExporting,
                   arg, ret, log>>

\* readAsDataURL resolved: the image is replaced and checkChanges called
ImageRead ==
    \E i \in Waiting("image") :
        LET r == card_checkChanges(Stores(heap))
        IN /\ StoresState(r, arg, ret)
           /\ image' = awaiting[i].file
           /\ awaiting' = Resumed(i)
           /\ Logged("image", r)
           /\ UNCHANGED <<isParsing, isExporting>>

\* readAsDataURL rejected: the catch block
ImageReadRejected ==
    \E i \in Waiting("image") :
        /\ awaiting' = Resumed(i)
        /\ UNCHANGED <<heap, histVars, cardVars, image, isParsing, isExporting,
                       arg, ret, log>>

\* createNew()
CreateNew ==
    LET r == history_clear(card_initNew(Stores(heap)))
    IN /\ StoresState(r, arg, ret)
       /\ image' = Null
       /\ log' = <<Op("new", createEmptyCard)>>
       /\ UNCHANGED <<isParsing, isExporting, awaiting>>

\* closeCard(), confirmed by the user when there are changes (declined, it
\* returns at once)
CloseCard ==
    LET r == history_clear(card_clear(Stores(heap)))
    IN /\ StoresState(r, arg, ret)
       /\ image' = Null
       /\ log' = <<Op("close", Null)>>
       /\ UNCHANGED <<isParsing, isExporting, awaiting>>

\* cleanText(text) with the default options on the strings of the model,
\* which have at most one character: a blank is trimmed away, a letter stays
cleanText(text) ==
    IF text.k = "string" /\ text.s = " " THEN Str("") ELSE text

\* SAFE_FIELDS, as far as the fields of the model's documents go
SAFE_FIELDS == <<NameKey, DescriptionKey>>

\* the loop of cleanCardFields over `fields` on the clone `cloned`
RECURSIVE CleanLoop(_, _, _)
CleanLoop(h, cloned, fields) ==
    IF fields = << >> THEN [heap |-> h, changes |-> {}]
    ELSE LET field == Head(fields)
             before == GetIn(Content(h, cloned), <<DataKey, field>>)
             after == cleanText(before)
             changed == before.k = "string" /\ before # after
             h1 == IF changed
                   THEN setByPath(h, cloned, DataKey \o <<".">> \o field, after, TRUE)
                   ELSE h
             rest == CleanLoop(h1, cloned, Tail(fields))
         IN [heap |-> rest.heap,
             changes |-> rest.changes \cup (IF changed THEN {field} ELSE {})]

\* cleanCardFields(cardData, fields)
cleanCardFields(h, cardData, fields) ==
    IF ~Truthy(GetProp(Content(h, cardData), DataKey))
    THEN [heap |-> h, cardData |-> cardData, changes |-> {}]
    ELSE LET c == deepClone(h, cardData)
             l == CleanLoop(c.heap, c.val, fields)
         IN [heap |-> l.heap, cardData |-> c.val, changes |-> l.changes]

\* cleanSafeFields() of the page and cleanCurrentCard() of the text cleaner
CleanSafeFields ==
    /\ Truthy(data)
    /\ LET c == deepClone(heap, data)
           s1 == history_push(Stores(c.heap), c.val)
           cl == cleanCardFields(s1.heap, s1.data, SAFE_FIELDS)
           s2 == [s1 EXCEPT !.heap = cl.heap]
           r == IF cl.changes = {} THEN s2
                ELSE card_checkChanges([s2 EXCEPT !.data = cl.cardData])
       IN /\ StoresState(r, arg, ret)
          /\ Logged("clean", r)
    /\ UNCHANGED pageVars

NextPage ==
    \/ \E file \in Files : ProcessFile(file)
    \/ ParseResolved
    \/ ParseRejected
    \/ UseGeneratedCard(Card("B"))
    \/ CreateNew
    \/ CloseCard
    \/ MayLog /\ \E n \in PageNames : WorkshopUpdateField(NamePath, Str(n))
    \/ MayLog /\ ToolbarUndo
    \/ CheckChangesTimeout
    \/ ExportPNG
    \/ MayLog /\ ExportResolved
    \/ ExportRejected
    \/ HandleImageChange
    \/ MayLog /\ ImageRead
    \/ ImageReadRejected
    \/ MayLog /\ CleanSafeFields

InitPage == Init /\ maxSize = DefaultMaxSize

SpecPage == InitPage /\ [][NextPage]_vars

----------------------------------------------------------------------------
(* The AI page: translateCard on the card store, with each chat request it   *)
(* awaits resolving or rejecting in a later step.  The log holds the load    *)
(* and the document after each step of a translation.                        *)

\* const fieldsToTranslate
fieldsToTranslate == <<DescriptionKey, PersonalityKey, ScenarioKey, FirstMesKey>>

\* cards with a description and a personality, one of them with an empty
\* personality
AiDocs ==
    {Obj(DataKey :> Obj((DescriptionKey :> Str("A")) @@ (PersonalityKey :> Str("B")))),
     Obj(DataKey :> Obj((DescriptionKey :> Str("A")) @@ (PersonalityKey :> Str(""))))}

\* what chat() resolves with
Translations == {Str("T"), Str("")}

\* card.data.data[field]
FieldText(S, field) == GetIn(Content(S.heap, S.data), <<DataKey, field>>)

\* the for loop of translateCard from its k-th field on: the fields whose
\* text is empty are skipped; the index of the field whose translation is
\* awaited next, or 0 when the loop is over
NextField(S, k) ==
    LET rest == {j \in k..Len(fieldsToTranslate) :
                    Truthy(FieldText(S, fieldsToTranslate[j]))}
    IN IF rest = {} THEN 0 ELSE CHOOSE j \in rest : \A m \in rest : j <= m

\* translateCard from the k-th field on, up to its next await or to its end,
\* where it calls checkChanges
TranslateLoop(S, k) ==
    LET j == NextField(S, k)
    IN IF j = 0
       THEN [stores |-> card_checkChanges(S), waits |-> << >>]
       ELSE [stores |-> S, waits |-> <<[kind |-> "translate", field |-> j]>>]

\* translateCard() up to its first await, with the AI connection configured
TranslateCard ==
    /\ MayLog
    /\ Len(awaiting) < MaxPending
    /\ Truthy(data)
    /\ LET c == deepClone(heap, data)
           s1 == history_push(Stores(c.heap), c.val)
           t == TranslateLoop(s1, 1)
       IN /\ StoresState(t.stores, arg, ret)
          /\ awaiting' = awaiting \o t.waits
          /\ Logged("translate", t.stores)
    /\ UNCHANGED <<image, isParsing, isExporting>>

\* chat() resolved with `translated`: the field is replaced and the loop
\* goes on; with the card closed meanwhile the write throws and the catch
\* block ends the handler
ChatResolved(translated) ==
    \E i \in Waiting("translate") :
        LET S == Stores(heap)
            field == fieldsToTranslate[awaiting[i].field]
            path == DataKey \o <<".">> \o field
            s1 == IF Truthy(translated)
                  THEN [S EXCEPT !.heap = setByPath(S.heap, S.data, path, translated, TRUE)]
                  ELSE S
            t == IF Truthy(translated) /\ ~Truthy(data)
                 THEN [stores |-> S, waits |-> << >>]
                 ELSE TranslateLoop(s1, awaiting[i].field + 1)
        IN /\ StoresState(t.stores, arg, ret)
           /\ awaiting' = Resumed(i) \o t.waits
           /\ Logged("translated", t.stores)
           /\ UNCHANGED <<image, isParsing, isExporting>>

\* chat() rejected: the catch block
ChatRejected ==
    \E i \in Waiting("translate") :
        /\ awaiting' = Resumed(i)
        /\ log' = Append(log, Op("failed", Content(heap, data)))
        /\ UNCHANGED <<heap, histVars, cardVars, image, isParsing, isExporting,
                       arg, ret>>

NextAi ==
    \/ \E d \in AiDocs : UseGeneratedCard(d)
    \/ TranslateCard
    \/ \E translated \in Translations : ChatResolved(translated)
    \/ ChatRejected
    \/ CheckChangesTimeout

SpecAi == InitPage /\ [][NextAi]_vars

----------------------------------------------------------------------------
(* The streaming client of ai_client.js: one request of streamChat or        *)
(* streamChatDirect, which differ in the request they send only.  The        *)
(* handler waits in `awaiting` for fetch and then for each read of the       *)
(* response; the log holds the callbacks it has invoked, each with the       *)
(* number of deltas of fullContent.  A callback of the caller may throw, as  *)
(* the onDone of aiPage._runWorkflow does when the card was closed during    *)
(* the request.                                                              *)

\* the lines of the event stream: a chunk with content, a chunk with content
\* and a finish_reason, a chunk with a finish_reason only, data: [DONE], an
\* error frame, data that is no JSON, and a line that is skipped (blank, or
\* event: error)
FrameKinds ==
    {"delta", "deltaFinish", "finish", "done", "error", "garbage", "skipped"}

Callbacks == {"onMessage", "onDone", "onError"}

\* what one read delivers: complete lines
Chunks == UNION {[1..n -> FrameKinds] : n \in 1..MaxFrames}

\* callback?.(...) : the call is appended to the calls made
Invoke(calls, callback, full) == Append(calls, Op(callback, full))

\* the for loop over the lines of one read, from the state (calls, full):
\* it goes through (exit "next"), returns from processSSEStream ("return")
\* or throws out of the loop ("throw"); what a callback throws inside the
\* try block around JSON.parse is caught there and the loop goes on
RECURSIVE ProcessLines(_, _, _, _)
ProcessLines(lines, full, calls, throws) ==
    IF lines = << >> THEN [exit |-> "next", full |-> full, calls |-> calls]
    ELSE LET line == Head(lines)
             rest == Tail(lines)
             full1 == IF line \in {"delta", "deltaFinish"} THEN full + 1 ELSE full
             msg == IF line \in {"delta", "deltaFinish"}
                    THEN Invoke(calls, "onMessage", full1) ELSE calls
             done == Invoke(msg, "onDone", full1)
         IN CASE line = "done" ->
                    [exit |-> IF "onDone" \in throws THEN "throw" ELSE "return",
                     full |-> full, calls |-> Invoke(calls, "onDone", full)]
              [] line = "error" ->
                    IF "onError" \in throws
                    THEN ProcessLines(rest, full, Invoke(calls, "onError", full), throws)
                    ELSE [exit |-> "return", full |-> full,
                          calls |-> Invoke(calls, "onError", full)]
              [] line = "delta" -> ProcessLines(rest, full1, msg, throws)
              [] line \in {"deltaFinish", "finish"} ->
                    IF line = "deltaFinish" /\ "onMessage" \in throws
                    THEN ProcessLines(rest, full1, msg, throws)
                    ELSE IF "onDone" \in throws
                    THEN ProcessLines(rest, full1, done, throws)
                    ELSE [exit |-> "return", full |-> full1, calls |-> done]
              [] OTHER -> ProcessLines(rest, full, calls, throws)

\* the catch block of streamChat / streamChatDirect for an error whose name
\* is AbortError or not
RequestCatch(calls, abortError, full) ==
    IF abortError THEN Invoke(calls, "onDone", 0) ELSE Invoke(calls, "onError", full)

\* the catch block of processSSEStream; what its callback throws goes to the
\* catch block of the request
StreamCatch(calls, abortError, aborted, full, throws) ==
    LET callback == IF abortError \/ aborted THEN "onDone" ELSE "onError"
        called == Invoke(calls, callback, full)
    IN IF callback \in throws THEN RequestCatch(called, FALSE, full) ELSE called

\* streamChat(options) up to await fetch(...), with callbacks of which those
\* in `throws` throw
StreamChat(throws) ==
    /\ arg = Undefined
    /\ arg' = Str("r")
    /\ awaiting' = <<[kind |-> "fetch", throws |-> throws, aborted |-> FALSE,
                      full |-> 0, reads |-> 0]>>
    /\ UNCHANGED <<heap, histVars, cardVars, image, isParsing, isExporting, ret, log>>

\* controller.abort() by the caller while the request is in flight
Abort ==
    /\ awaiting # << >>
    /\ ~awaiting[1].aborted
    /\ awaiting' = <<[awaiting[1] EXCEPT !.aborted = TRUE]>>
    /\ UNCHANGED <<heap, histVars, cardVars, image, isParsing, isExporting,
                   arg, ret, log>>

\* fetch resolved with a response that is ok, and processSSEStream runs to
\* its first read, or with one that is not
FetchResolved(ok) ==
    /\ Waiting("fetch") # {}
    /\ ~awaiting[1].aborted
    /\ IF ok
       THEN /\ awaiting' = <<[awaiting[1] EXCEPT !.kind = "read"]>>
            /\ log' = log
       ELSE /\ awaiting' = << >>
            /\ log' = RequestCatch(log, FALSE, 0)
    /\ UNCHANGED <<heap, histVars, cardVars, image, isParsing, isExporting, arg, ret>>

\* fetch rejected: with an AbortError after abort(), else a network error
FetchRejected ==
    /\ Waiting("fetch") # {}
    /\ awaiting' = << >>
    /\ log' = RequestCatch(log, awaiting[1].aborted, 0)
    /\ UNCHANGED <<heap, histVars, cardVars, image, isParsing, isExporting, arg, ret>>

\* reader.read() resolved with lines
ReadResolved(chunk) ==
    /\ Waiting("read") # {}
    /\ ~awaiting[1].aborted
    /\ awaiting[1].reads < MaxChunks
    /\ LET w == awaiting[1]
           r == ProcessLines(chunk, w.full, log, w.throws)
       IN CASE r.exit = "next" ->
                   /\ awaiting' = <<[w EXCEPT !.full = r.full, !.reads = w.reads + 1]>>
                   /\ log' = r.calls
            [] r.exit = "return" ->
                   /\ awaiting' = << >>
                   /\ log' = r.calls
            [] r.exit = "throw" ->
                   /\ awaiting' = << >>
                   /\ log' = StreamCatch(r.calls, FALSE, w.aborted, r.full, w.throws)
    /\ UNCHANGED <<heap, histVars, cardVars, image, isParsing, isExporting, arg, ret>>

\* reader.read() resolved with done: onDone after the loop
ReadDone ==
    /\ Waiting("read") # {}
    /\ ~awaiting[1].aborted
    /\ LET w == awaiting[1]
           called == Invoke(log, "onDone", w.full)
       IN /\ awaiting' = << >>
          /\ log' = IF "onDone" \in w.throws
                    THEN StreamCatch(called, FALSE, w.aborted, w.full, w.throws)
                    ELSE called
    /\ UNCHANGED <<heap, histVars, cardVars, image, isParsing, isExporting, arg, ret>>

\* reader.read() rejected: with an AbortError after abort(), else a network
\* error
ReadRejected ==
    /\ Waiting("read") # {}
    /\ LET w == awaiting[1]
       IN /\ awaiting' = << >>
          /\ log' = StreamCatch(log, w.aborted, w.aborted, w.full, w.throws)
    /\ UNCHANGED <<heap, histVars, cardVars, image, isParsing, isExporting, arg, ret>>

NextStream ==
    \/ \E throws \in SUBSET Callbacks : StreamChat(throws)
    \/ Abort
    \/ \E ok \in BOOLEAN : FetchResolved(ok)
    \/ FetchRejected
    \/ \E chunk \in Chunks : ReadResolved(chunk)
    \/ ReadDone
    \/ ReadRejected

SpecStream == InitPage /\ [][NextStream]_vars

----------------------------------------------------------------------------
(* A client of the card store: any sequence of its operations and expiries   *)
(* of its timeout, with recordState and the undo and redo of the toolbar and *)
(* of the keyboard.  The log is the operation that last stored originalData, *)
(* with the document it stored, followed by the operation after it, with    *)
(* card.data as it left it; of further operations only the latest is kept,  *)
(* after a "..." entry.                                                      *)

\* the log after an operation that stores d as originalData
Baseline(opName, d) == log' = <<Op(opName, d)>>

\* the log after any other operation, which left the stores as r
Latest(opName, r) ==
    LET o == Op(opName, Content(r.heap, r.data))
    IN log' = IF Len(log) <= 1 THEN Append(log, o)
              ELSE <<log[1], Op("...", Undefined), o>>

CardInitNew ==
    /\ StoresResult(card_initNew(Stores(heap)), Undefined, Undefined)
    /\ Baseline("initNew", createEmptyCard)

\* loadCard({card: d}), d a document the caller has just parsed; the caller
\* holds it in `arg`, as it holds in `ret` what getField returned, until the
\* next operation
CardLoadCard(d) ==
    /\ LET o == NewObject(heap, d)
       IN StoresResult(card_loadCard(Stores(o.heap), o.val), o.val, Undefined)
    /\ Baseline("loadCard", d)

CardUpdateField(path, value) ==
    LET r == card_updateField(Stores(heap), path, value)
    IN StoresResult(r, Undefined, Undefined) /\ Latest("updateField", r)

CardGetField(path) ==
    LET r == card_getField(Stores(heap), path)
    IN StoresResult(r, Undefined, r.ret) /\ Latest("getField", r)

CardCheckChanges ==
    LET r == card_checkChanges(Stores(heap))
    IN StoresResult(r, Undefined, Undefined) /\ Latest("checkChanges", r)

CardCheckChangesTimeout ==
    \E id \in timeouts :
        LET r == card_checkChangesTimeout(Stores(heap), id)
        IN StoresResult(r, Undefined, Undefined) /\ Latest("timeout", r)

CardMarkSaved ==
    /\ StoresResult(card_markSaved(Stores(heap)), Undefined, Undefined)
    /\ Baseline("markSaved", Content(heap, data))

CardReset ==
    LET r == card_reset(Stores(heap))
    IN StoresResult(r, Undefined, Undefined) /\ Latest("reset", r)

CardClear ==
    /\ StoresResult(card_clear(Stores(heap)), Undefined, Undefined)
    /\ Baseline("clear", Null)

\* recordState() of undo_redo.js
RecordState ==
    /\ Len(stack) < MaxRecords
    /\ LET r == IF Truthy(data) THEN history_push(Stores(heap), data)
                ELSE Stores(heap)
       IN StoresResult(r, Undefined, Undefined) /\ Latest("recordState", r)

CardUndo(key) ==
    /\ canUndo(Stores(heap)) /\ (key => Truthy(data))
    /\ LET r == ApplyHistoryState(history_undo(Stores(heap)))
       IN StoresResult(r, Undefined, Undefined) /\ Latest("undo", r)

CardRedo(key) ==
    /\ canRedo(Stores(heap)) /\ (key => Truthy(data))
    /\ LET r == ApplyHistoryState(history_redo(Stores(heap)))
       IN StoresResult(r, Undefined, Undefined) /\ Latest("redo", r)

NextCard ==
    \/ CardInitNew
    \/ \E d \in Docs : CardLoadCard(d)
    \/ \E n \in DocNames : CardUpdateField(NamePath, Str(n))
    \/ CardGetField(NamePath)
    \/ CardCheckChanges
    \/ CardCheckChangesTimeout
    \/ CardMarkSaved
    \/ CardReset
    \/ CardClear
    \/ RecordState
    \/ \E key \in BOOLEAN : CardUndo(key)
    \/ \E key \in BOOLEAN : CardRedo(key)

\* the history store as store.js creates it
InitCard == Init /\ maxSize = DefaultMaxSize

SpecCard == InitCard /\ [][NextCard]_vars

----------------------------------------------------------------------------
(* The path utilities and deepClone on one document, which the caller holds  *)
(* in `arg`.  The log holds each call with its arguments and the document    *)
(* before it.                                                                *)

TagsKey == <<"t", "a", "g", "s">>
MetaKey == <<"m", "e", "t", "a">>
CountKey == <<"c", "o", "u", "n", "t">>

\* {name: "A", tags: ["x"]}, the same with meta: null, and a document whose
\* tags is a string and whose meta is an object
PathDocs ==
    {Obj((NameKey :> Str("A")) @@ (TagsKey :> Arr(<<"0">> :> Str("x"), 1))),
     Obj((NameKey :> Str("A")) @@ (TagsKey :> Arr(<<"0">> :> Str("x"), 1))
         @@ (MetaKey :> Null)),
     Obj((NameKey :> Str("A")) @@ (TagsKey :> Str("x"))
         @@ (MetaKey :> Obj(CountKey :> Num(1))))}

\* 'name', 'tags[1]', 'tags.0', 'meta.count', 'name.f', 'name[0]',
\* 'meta.l[0].i'
Paths ==
    {NameKey,
     TagsKey \o <<"[", "1", "]">>,
     TagsKey \o <<".", "0">>,
     MetaKey \o <<".">> \o CountKey,
     NameKey \o <<".", "f">>,
     NameKey \o <<"[", "0", "]">>,
     MetaKey \o <<".", "l", "[", "0", "]", ".", "i">>}

Values == {Str("y"), Num(3), Null}

InitPath ==
    /\ Init
    /\ maxSize = DefaultMaxSize

\* a call on the document the caller took (arg) or on its clone (ret)
Call(onClone, path, value, autoCreate) ==
    [onClone |-> onClone, path |-> path, value |-> value,
     autoCreate |-> autoCreate,
     before |-> Content(heap, IF onClone THEN ret ELSE arg)]

\* the caller takes a document
TakeDocument(d) ==
    /\ arg = Undefined
    /\ LET o == NewObject(heap, d)
       IN heap' = o.heap /\ arg' = o.val
    /\ UNCHANGED <<histVars, cardVars, pageVars, ret, log>>

SetByPath(onClone, path, value, autoCreate) ==
    /\ IsRef(IF onClone THEN ret ELSE arg)
    /\ Len(log) < MaxPathOps
    /\ heap' = setByPath(heap, IF onClone THEN ret ELSE arg, path, value,
                         autoCreate)
    /\ log' = Append(log, Op("set", Call(onClone, path, value, autoCreate)))
    /\ UNCHANGED <<histVars, cardVars, pageVars, arg, ret>>

GetByPath(path) ==
    /\ IsRef(arg)
    /\ Len(log) < MaxPathOps
    /\ ret' = getByPath(Content(heap, arg), path)
    /\ log' = Append(log, Op("get", Call(FALSE, path, Undefined, FALSE)))
    /\ UNCHANGED <<heap, histVars, cardVars, pageVars, arg>>

\* ret = deepClone(arg)
CloneDocument ==
    /\ IsRef(arg)
    /\ Len(log) < MaxPathOps
    /\ LET c == deepClone(heap, arg)
       IN heap' = c.heap /\ ret' = c.val
    /\ log' = Append(log, Op("clone", Call(FALSE, << >>, Undefined, FALSE)))
    /\ UNCHANGED <<histVars, cardVars, pageVars, arg>>

NextPath ==
    \/ \E d \in PathDocs : TakeDocument(d)
    \/ \E path \in Paths, value \in Values, autoCreate \in BOOLEAN :
           SetByPath(FALSE, path, value, autoCreate)
    \/ \E path \in Paths : GetByPath(path)

SpecPath == InitPath /\ [][NextPath]_vars

\* a document and its clones, written to with autoCreate
NextClone ==
    \/ \E d \in PathDocs : TakeDocument(d)
    \/ CloneDocument
    \/ \E onClone \in BOOLEAN, path \in Paths, value \in Values :
           SetByPath(onClone, path, value, TRUE)

SpecClone == InitPath /\ [][NextClone]_vars

----------------------------------------------------------------------------
(* deepEqual on two JSON-like values, which the caller holds in `arg` and   *)
(* `ret`.  The log holds the call with its arguments and its result.        *)

\* the key of the array index i
IndexKey(i) == <<CHOOSE c \in Digits : DigitVal(c) = i>>

\* the array literal [s[1], ..., s[n]]
ArrayOf(s) ==
    Arr([key \in {IndexKey(i - 1) : i \in 1..Len(s)} |-> s[KeyNumber(key) + 1]],
        Len(s))

JsonLeaves == {Null, Str("1"), Num(1)}
JsonKeys == {<<"a">>, <<"0">>}

\* the object literals with keys of JsonKeys and the array literals of at
\* most MaxLen elements, over the values V
ObjectsOver(V) == UNION {{Obj(f) : f \in [K -> V]} : K \in SUBSET JsonKeys}
ArraysOver(V) == UNION {{ArrayOf(s) : s \in [1..n -> V]} : n \in 0..MaxLen}

JsonFlat == JsonLeaves \cup ObjectsOver(JsonLeaves) \cup ArraysOver(JsonLeaves)

\* {a: e} and [e] for each object or array e of JsonFlat
JsonNested ==
    UNION {{Obj(<<"a">> :> e), ArrayOf(<<e>>)} : e \in JsonFlat \ JsonLeaves}

JsonValues == JsonFlat \cup JsonNested

InitEqual ==
    /\ heap = EmptyHeap
    /\ stack = << >>
    /\ index = -1
    /\ maxSize = DefaultMaxSize
    /\ data = Null
    /\ originalData = Null
    /\ hasChanges = FALSE
    /\ timer = 0
    /\ timeouts = {}
    /\ image = Null
    /\ isParsing = FALSE
    /\ isExporting = FALSE
    /\ awaiting = << >>
    /\ arg \in JsonValues
    /\ ret \in JsonValues
    /\ log = << >>

DeepEqual ==
    /\ log = << >>
    /\ log' = <<Op("deepEqual",
                   [a |-> arg, b |-> ret, result |-> deepEqual(arg, ret)])>>
    /\ UNCHANGED <<heap, histVars, cardVars, pageVars, arg, ret>>

NextEqual == DeepEqual

SpecEqual == InitEqual /\ [][NextEqual]_vars

----------------------------------------------------------------------------
(* Claims about the history store, checked under Spec *)

\* the last operation of the log
Last(l) == l[Len(l)]
LastIs(l, opName) == Len(l) >= 1 /\ l[Len(l)].op = opName

IsPushStep == Len(log') = Len(log) + 1 /\ Last(log').op = "push"
IsUndoStep == Len(log') = Len(log) + 1 /\ Last(log').op = "undo"
IsRedoStep == Len(log') = Len(log) + 1 /\ Last(log').op = "redo"
\* a write of the caller to a document it holds: the only steps of Spec that
\* are no operation of the history
IsMutateStep == log' = log

\* the entries push keeps before it appends: positions 0..index
Kept == SubSeq(StackContents, 1, index + 1)

\* the log is init(s0), then k pushes, then j undos
PushCount(l) == Cardinality({i \in DOMAIN l : l[i].op = "push"})
UndoCount(l) == Cardinality({i \in DOMAIN l : l[i].op = "undo"})
InitPushesUndos(l) ==
    /\ Len(l) >= 1
    /\ l[1].op = "init"
    /\ Len(l) = 1 + PushCount(l) + UndoCount(l)
    /\ \A i \in 2..(1 + PushCount(l)) : l[i].op = "push"

\* C1: in every state reachable by push, undo, redo, clear and init
\* (maxSize >= 1), -1 <= index < length(stack), and index = -1 exactly when
\* the stack is empty.
C1_IndexInRange ==
    /\ -1 <= index
    /\ index < Len(stack)
    /\ (index = -1) <=> (Len(stack) = 0)

\* C1 witness: a full stack that evicted its oldest entry and was undone back
\* to its first entry.
C1_Witness ==
    /\ maxSize >= 2
    /\ Len(stack) = maxSize
    /\ index = 0
    /\ LastIs(log, "undo")
    /\ PushCount(log) >= maxSize

\* C2: length(stack) <= maxSize in every reachable state, and a push that
\* would exceed maxSize evicts exactly the oldest entry: the new stack is the
\* kept entries followed by the pushed document, without position 0.
C2_BoundedEvictOldest ==
    /\ [](Len(stack) <= maxSize)
    /\ [][IsPushStep /\ Len(Kept) + 1 > maxSize
            => StackContents' = Tail(Append(Kept, Last(log').d))]_vars

\* C2 witness: a push on a full stack has just evicted.
C2_Witness ==
    /\ LastIs(log, "push")
    /\ Len(stack) = maxSize
    /\ PushCount(log) > maxSize

\* C3: a push while index < length(stack) - 1 discards every entry after
\* index before it appends: the new stack is the old entries 0..index
\* followed by d, and canRedo is false afterwards.  With room for two entries,
\* init(s0); push(s1); undo(); push(s2) leaves exactly s0, s2.
C3_PushTruncatesRedo ==
    /\ [][IsPushStep /\ index < Len(stack) - 1
            => /\ StackContents' = Append(Kept, Last(log').d)
               /\ ~(index' < Len(stack') - 1)]_vars
    /\ [](( /\ maxSize >= 2
            /\ Len(log) = 4
            /\ log[1].op = "init" /\ log[2].op = "push"
            /\ log[3].op = "undo" /\ log[4].op = "push")
          => /\ StackContents = <<log[1].d, log[4].d>>
             /\ ~(index < Len(stack) - 1))

\* C3 witness: init(s0); push(s1); undo(); push(s2) with s1 # s2 has run.
C3_Witness ==
    /\ Len(log) = 4
    /\ log[1].op = "init" /\ log[2].op = "push"
    /\ log[3].op = "undo" /\ log[4].op = "push"
    /\ log[2].d # log[4].d
    /\ Len(stack) = 2

\* C4: after init followed by n > maxSize pushes with no undo in between,
\* length(stack) = maxSize and the stack holds the maxSize most recently
\* pushed documents in the order they were pushed.
C4_KeepsMostRecent ==
    (InitPushesUndos(log) /\ UndoCount(log) = 0 /\ PushCount(log) > maxSize)
    => /\ Len(stack) = maxSize
       /\ StackContents = [i \in 1..maxSize |-> log[Len(log) - maxSize + i].d]

\* C4 witness: init and maxSize + 1 pushes, not all of the same document,
\* with maxSize >= 2.
C4_Witness ==
    /\ InitPushesUndos(log) /\ UndoCount(log) = 0
    /\ PushCount(log) > maxSize
    /\ maxSize >= 2
    /\ log[Len(log)].d # log[Len(log) - 1].d

\* C5: after every push(d), whether or not it truncated a redo branch or
\* evicted the oldest entry, index = length(stack) - 1 and stack[index] is
\* deep-equal to d (until the next operation of the history).
C5_IndexOnPushed ==
    LastIs(log, "push")
    => /\ index = Len(stack) - 1
       /\ deepEqual(Content(heap, At(stack, index)), Last(log).d)

\* C5 witness: a push that evicted, after an undo earlier in the run.
C5_Witness ==
    /\ LastIs(log, "push")
    /\ Len(stack) = maxSize
    /\ PushCount(log) > maxSize
    /\ UndoCount(log) >= 1

\* C6: after init(s0) and pushes of s1..sk with k < maxSize, the j-th of k
\* consecutive undos returns a document equal to s(k-j), and after the k-th
\* canUndo is false.
C6_UndoWalksBack ==
    LET k == PushCount(log)
        j == UndoCount(log)
    IN (InitPushesUndos(log) /\ k < maxSize /\ 1 <= j /\ j <= k)
       => /\ deepEqual(Last(log).d, log[k - j + 1].d)
          /\ (j = k => ~(index > 0))

\* C6 witness: init(s0); push(s1); push(s2); undo(); undo() with s0 # s1.
C6_Witness ==
    /\ InitPushesUndos(log)
    /\ PushCount(log) = 2 /\ UndoCount(log) = 2
    /\ maxSize > 2
    /\ log[1].d # log[2].d

\* C7: undo() with index <= 0 returns null and leaves stack and index
\* unchanged; redo() with index = length(stack) - 1 returns null and leaves
\* stack and index unchanged.
C7_DisabledUndoRedoNoOp ==
    /\ [][IsUndoStep /\ index <= 0
            => ret' = Null /\ StackContents' = StackContents /\ index' = index]_vars
    /\ [][IsRedoStep /\ index = Len(stack) - 1
            => ret' = Null /\ StackContents' = StackContents /\ index' = index]_vars

\* C7 witness: undo was called with one entry on the stack and returned null.
C7_Witness ==
    /\ LastIs(log, "undo")
    /\ ret = Null
    /\ index = 0
    /\ Len(stack) = 1

\* C8: from any reachable state, init(d) leaves what clear() followed by
\* push(d) leaves: exactly one entry equal to d, index = 0, canUndo and
\* canRedo false.
C8_InitIsClearThenPush ==
    /\ (Len(log) = 1 /\ log[1].op = "init")
       => /\ Len(stack) = 1
          /\ deepEqual(Content(heap, stack[1]), log[1].d)
          /\ index = 0
          /\ ~(index > 0) /\ ~(index < Len(stack) - 1)
    /\ (Len(log) = 2 /\ log[1].op = "clear" /\ log[2].op = "push")
       => /\ Len(stack) = 1
          /\ deepEqual(Content(heap, stack[1]), log[2].d)
          /\ index = 0

\* C8 witness: init on a history that had entries to undo (an earlier undo
\* returned a document).
C8_Witness ==
    /\ Len(log) = 1 /\ log[1].op = "init"
    /\ IsRef(ret)
    /\ IsRef(arg)

\* C9: writing to a document after it was passed to push or init, or to a
\* document undo or redo returned, leaves every entry of the stack unchanged.
C9_NoAliasing ==
    [][IsMutateStep => StackContents' = StackContents]_vars

\* C9 witness: after a push and an undo the caller has changed both the
\* document it had pushed and the document undo returned, and the entry the
\* undo returned a copy of is still what undo returned.
C9_Witness ==
    /\ Len(log) >= 2
    /\ log[Len(log) - 1].op = "push"
    /\ LastIs(log, "undo")
    /\ IsRef(arg) /\ IsRef(ret)
    /\ Content(heap, arg) # log[Len(log) - 1].d
    /\ Content(heap, ret) # Last(log).d
    /\ Content(heap, At(stack, index)) = Last(log).d

----------------------------------------------------------------------------
(* Claims about the workshop, checked under SpecWorkshop *)

EditCount(l) == Cardinality({i \in DOMAIN l : l[i].op = "edit"})

\* the log is a load, then n edits, then j undos
LoadEditsUndos(l) ==
    /\ Len(l) >= 1
    /\ l[1].op = "load"
    /\ Len(l) = 1 + EditCount(l) + UndoCount(l)
    /\ \A i \in 2..(1 + EditCount(l)) : l[i].op = "edit"

\* C10: under the workshop's protocol (a load resets the history, each edit
\* pushes a clone of the current document and then applies updateField),
\* after n >= 1 edits undo is enabled, and the j-th undo sets the current
\* document to the document as it was before the (n-j+1)-th edit, so that n
\* undos restore the loaded document.
C10_UndoRestoresPreEdit ==
    LET n == EditCount(log)
        j == UndoCount(log)
    IN LoadEditsUndos(log)
       => /\ (n >= 1 /\ j = 0) => index > 0
          /\ (1 <= j /\ j <= n) => deepEqual(Content(heap, data), log[n - j + 1].d)

\* C25: undo and redo leave the length and the contents of the stack as they
\* were and move only the index, by -1 and by +1 when they are enabled; so a
\* redo() that follows an enabled undo() is enabled, puts the index back
\* where it was before the undo, and returns a document equal to the entry
\* that was current before the undo.
C25_UndoRedoMoveOnlyIndex ==
    /\ [][IsUndoStep
            => /\ StackContents' = StackContents
               /\ index' = IF index > 0 THEN index - 1 ELSE index]_vars
    /\ [][IsRedoStep
            => /\ StackContents' = StackContents
               /\ index' = IF index < Len(stack) - 1 THEN index + 1 ELSE index]_vars
    /\ [][(IsRedoStep /\ LastIs(log, "undo") /\ Last(log).d # Null)
            => /\ index' = index + 1
               /\ IsRef(ret')
               /\ deepEqual(Content(heap', ret'), StackContents[index + 2])]_vars

\* C25 witness: undo() and then redo() on a stack whose two top entries
\* differ; the redo returned the entry on top
C25_Witness ==
    /\ Len(log) >= 2
    /\ LastIs(log, "redo")
    /\ log[Len(log) - 1].op = "undo"
    /\ log[Len(log) - 1].d # Null
    /\ log[Len(log) - 1].d # Last(log).d
    /\ index = Len(stack) - 1

----------------------------------------------------------------------------
(* Claims about the workshop, checked under SpecWorkshop *)

\* C24: under the workshop's protocol, after an edit, then undo, then redo
\* (by the keyboard or the toolbar) the current document is deep-equal to the
\* document as it was right after the edit: redo reverses the undo before it.
C24_RedoReversesUndo ==
    LET n == Len(log)
    IN (n >= 4 /\ log[n - 2].op = "edit" /\ log[n - 1].op = "undo"
            /\ log[n].op = "redo")
        => deepEqual(Content(heap, data), log[n - 2].d)

----------------------------------------------------------------------------
(* Claims about the card store, checked under SpecCard *)

CardStoreOps ==
    {"initNew", "loadCard", "updateField", "getField", "checkChanges",
     "timeout", "markSaved", "reset", "clear"}

\* the step is the operation opName (every operation of SpecCard ends the log
\* with its name)
IsCardStep(opName) == Len(log') >= 1 /\ Last(log').op = opName

\* C11: no operation of the card store (initNew, loadCard, updateField,
\* getField, checkChanges and its timeout, markSaved, reset, clear) changes
\* the stack, the index or maxSize of the history; loadCard(r) leaves data
\* the object r.card itself, originalData another object with the same
\* content, and hasChanges false.
C11_CardOpsLeaveHistory ==
    [][/\ (\E o \in CardStoreOps : IsCardStep(o))
          => /\ StackContents' = StackContents
             /\ index' = index
             /\ maxSize' = maxSize
       /\ IsCardStep("loadCard")
          => /\ IsRef(data') /\ data' = arg'
             /\ Content(heap', data') = log'[1].d
             /\ IsRef(originalData') /\ originalData' # data'
             /\ Content(heap', originalData') = log'[1].d
             /\ hasChanges' = FALSE]_vars

\* a card is loaded, and later cleared, while the history holds snapshots
C11_Witness ==
    /\ LastIs(log, "clear")
    /\ Len(stack) = MaxRecords
    /\ index = 0
    /\ data = Null

\* C12: at most one timeout of checkChanges is pending at any time, the one
\* card._checkChangesTimer names; every call of checkChanges sets hasChanges
\* at once and leaves exactly one timeout pending, a new one, so that calls
\* with no expiry between them are followed by one recomputation.
C12_OneTimerPending ==
    /\ [](timeouts = IF timer = 0 THEN {} ELSE {timer})
    /\ [][IsCardStep("checkChanges")
             => /\ hasChanges' = TRUE
                /\ timer' # 0 /\ timer' # timer
                /\ timeouts' = {timer'}]_vars

\* checkChanges was called while the timeout of an earlier call was pending
\* (the first timeout has id 1)
C12_Witness ==
    /\ LastIs(log, "checkChanges")
    /\ timer = 2
    /\ timeouts = {2}
    /\ hasChanges

\* C13: whenever no timeout of checkChanges is pending, hasChanges is
\* exactly not deepEqual(data, originalData), whatever initNew, loadCard,
\* updateField, markSaved, reset, clear, undo, redo and expiries came before.
C13_DirtyIsPrecise ==
    timeouts = {} => (hasChanges <=> ~DeepEqualIn(heap, data, originalData))

\* the timeout has fired after an edit that changed the loaded document
C13_Witness ==
    /\ LastIs(log, "timeout")
    /\ timeouts = {}
    /\ hasChanges
    /\ IsRef(data) /\ IsRef(originalData)
    /\ Content(heap, data) # Content(heap, originalData)

\* the operations of SpecCard that call checkChanges
CheckingOps == {"checkChanges", "updateField", "undo", "redo"}

\* C14: markSaved() leaves originalData an object other than data that is
\* deepEqual to it, and hasChanges false; from then on hasChanges stays
\* false up to the next call of checkChanges, also when a timeout scheduled
\* before markSaved expires, and a later updateField leaves originalData as
\* markSaved stored it.
C14_MarkSavedIsClean ==
    [][/\ IsCardStep("markSaved")
          => /\ hasChanges' = FALSE
             /\ DeepEqualIn(heap', data', originalData')
             /\ Content(heap', originalData') = Content(heap, data)
             /\ IsRef(data') => (IsRef(originalData') /\ originalData' # data')
       /\ (/\ Len(log) >= 1 /\ log[1].op = "markSaved"
           /\ ~hasChanges
           /\ \A o \in CheckingOps : ~IsCardStep(o))
          => hasChanges' = FALSE
       /\ (Len(log) >= 1 /\ log[1].op = "markSaved" /\ IsCardStep("updateField"))
          => Content(heap', originalData') = log[1].d]_vars

\* an edit, then markSaved while the timeout of the edit is pending, then
\* the expiry
C14_Witness ==
    /\ log = <<Op("markSaved", Card("B")), Op("timeout", Card("B"))>>
    /\ hasChanges = FALSE
    /\ timeouts = {}
    /\ Content(heap, data) = Card("B")

\* C15: reset() with an originalData leaves data a new object, other than
\* originalData, with the content of originalData, and hasChanges false;
\* after loadCard(d) and any operations but markSaved that content is the d
\* that was loaded; an updateField never changes originalData; reset() with
\* originalData null changes nothing.
C15_ResetRestoresLoaded ==
    [][/\ (IsCardStep("reset") /\ Truthy(originalData))
          => /\ hasChanges' = FALSE
             /\ IsRef(data') /\ data' # originalData'
             /\ Content(heap', data') = Content(heap, originalData)
             /\ Content(heap', originalData') = Content(heap, originalData)
             /\ log[1].op = "loadCard" => Content(heap', data') = log[1].d
       /\ (IsCardStep("reset") /\ ~Truthy(originalData))
          => /\ Content(heap', data') = Content(heap, data)
             /\ originalData' = originalData
             /\ hasChanges' = hasChanges
       /\ IsCardStep("updateField")
          => Content(heap', originalData') = Content(heap, originalData)]_vars

\* load A, edit it, reset while the timeout of the edit is pending: the
\* card is A again
C15_Witness ==
    /\ log = <<Op("loadCard", Card("A")), Op("...", Undefined),
               Op("reset", Card("A"))>>
    /\ Content(heap, data) = Card("A")
    /\ data # originalData
    /\ hasChanges = FALSE
    /\ timeouts # {}

\* the card store as clear() leaves it
Cleared == data = Null /\ originalData = Null /\ hasChanges = FALSE

\* C16: on the card store that clear() has emptied, updateField, getField,
\* reset, markSaved, checkChanges and the expiry of its timeout change
\* nothing: data and originalData stay null and hasChanges stays false.
C16_ClearedStoreOpsAreNoOps ==
    [][(/\ Cleared
        /\ Len(log) >= 1 /\ log[1].op = "clear"
        /\ \E o \in {"updateField", "getField", "reset", "markSaved",
                     "checkChanges", "timeout"} : IsCardStep(o))
       => Cleared']_vars

----------------------------------------------------------------------------
(* Claims about the path utilities, checked under SpecPath *)

\* the call the log ends with, and the document after it
LastCall == Last(log).d
After == Content(heap, IF LastCall.onClone THEN ret ELSE arg)

\* the value at the keys before the last one of the path
Parent(d, path) ==
    LET keys == PathKeys(path)
    IN GetIn(d, SubSeq(keys, 1, Len(keys) - 1))

\* C17: after setByPath(d, p, v) with autoCreate = true, getByPath(d, p) is
\* v, whether the segments before the last were objects, arrays, missing,
\* null or primitives.
C17_GetAfterSet ==
    (LastIs(log, "set") /\ LastCall.autoCreate)
        => getByPath(After, LastCall.path) = LastCall.value

\* a set through 'name', a string before the call, read back
C17_Witness ==
    /\ LastIs(log, "set")
    /\ LastCall.autoCreate
    /\ LastCall.path = NameKey \o <<"[", "0", "]">>
    /\ GetProp(LastCall.before, NameKey) = Str("A")
    /\ GetProp(After, NameKey) = Arr(<<"0">> :> LastCall.value, 1)

\* C18: setByPath(d, p, v, autoCreate = false) on a path that does not exist
\* in d (getByPath(d, p) is undefined, some segment, possibly the last one,
\* being missing) leaves d deepEqual to what it was.
C18_NoAutoCreateUnchanged ==
    (/\ LastIs(log, "set") /\ ~LastCall.autoCreate
     /\ getByPath(LastCall.before, LastCall.path) = Undefined)
        => deepEqual(LastCall.before, After)

\* C18, amended: setByPath(d, p, v, autoCreate = false) on a path with a
\* segment before the last one that is missing, null or a primitive leaves d
\* as it was; the last segment of a path whose other segments exist is
\* written even if it was missing.
C18_NoAutoCreateAborts ==
    (LastIs(log, "set") /\ ~LastCall.autoCreate)
        => IF IsObjectLike(Parent(LastCall.before, LastCall.path))
           THEN getByPath(After, LastCall.path) = LastCall.value
           ELSE After = LastCall.before /\ deepEqual(LastCall.before, After)

\* a set without autoCreate below meta, which is null: nothing is written
C18_Witness ==
    /\ LastIs(log, "set")
    /\ ~LastCall.autoCreate
    /\ LastCall.path = MetaKey \o <<".">> \o CountKey
    /\ GetProp(LastCall.before, MetaKey) = Null
    /\ After = LastCall.before

\* {name: "A", tags: ["x"]}
TaggedDoc == Obj((NameKey :> Str("A")) @@ (TagsKey :> Arr(<<"0">> :> Str("x"), 1)))

\* C19: with autoCreate = true, at every segment before the last, an object
\* or array that was there is still there with its other properties, and in
\* place of a missing, null or primitive value there is a new container with
\* the next key alone: an array when that key is all digits, else an object.
\* On {name: "A", tags: ["x"]}, set 'tags[1]' = "y" gives tags ["x", "y"],
\* and set 'meta.count' = 3 gives meta {count: 3}.
C19_AutoCreateContainers ==
    (LastIs(log, "set") /\ LastCall.autoCreate)
        => LET keys == PathKeys(LastCall.path)
           IN /\ \A i \in 1..(Len(keys) - 1) :
                    LET b == GetIn(LastCall.before, SubSeq(keys, 1, i))
                        a == GetIn(After, SubSeq(keys, 1, i))
                    IN IF IsObjectLike(b)
                       THEN /\ a.k = b.k
                            /\ \A x \in DOMAIN b.p \ {keys[i + 1]} :
                                   x \in DOMAIN a.p /\ a.p[x] = b.p[x]
                       ELSE /\ a.k = IF IsDigits(keys[i + 1]) THEN "array"
                                     ELSE "object"
                            /\ DOMAIN a.p = {keys[i + 1]}
              /\ (/\ LastCall.before = TaggedDoc
                  /\ LastCall.path = TagsKey \o <<"[", "1", "]">>
                  /\ LastCall.value = Str("y"))
                 => After = Obj((NameKey :> Str("A"))
                                @@ (TagsKey :> Arr((<<"0">> :> Str("x"))
                                                   @@ (<<"1">> :> Str("y")), 2)))
              /\ (/\ LastCall.before = TaggedDoc
                  /\ LastCall.path = MetaKey \o <<".">> \o CountKey
                  /\ LastCall.value = Num(3))
                 => After = Obj((NameKey :> Str("A"))
                                @@ (TagsKey :> Arr(<<"0">> :> Str("x"), 1))
                                @@ (MetaKey :> Obj(CountKey :> Num(3))))

\* 'meta.l[0].i' set on a document without meta: an object, an array and an
\* object have been created
C19_Witness ==
    /\ LastIs(log, "set")
    /\ LastCall.autoCreate
    /\ LastCall.before = TaggedDoc
    /\ GetProp(After, MetaKey)
           = Obj(<<"l">> :> Arr(<<"0">> :> Obj(<<"i">> :> LastCall.value), 1))

----------------------------------------------------------------------------
(* Claims about deepClone, checked under SpecClone *)

\* C20: deepClone(d) is an object other than d that is deepEqual to d, and
\* a setByPath on either of the two leaves the content of the other as it
\* was: they share no object.
C20_CloneIsIndependent ==
    /\ [](LastIs(log, "clone")
            => /\ IsRef(ret) /\ ret # arg
               /\ deepEqual(Content(heap, arg), Content(heap, ret))
               /\ Content(heap, ret) = Content(heap, arg))
    /\ [][(IsRef(arg) /\ IsRef(ret) /\ Len(log') = Len(log) + 1
           /\ Last(log').op = "set")
          => IF Last(log').d.onClone
             THEN Content(heap', arg') = Content(heap, arg)
             ELSE Content(heap', ret') = Content(heap, ret)]_vars

\* the clone of {name: "A", tags: ["x"]} has got a second tag, the document
\* has not
C20_Witness ==
    /\ Len(log) = 2
    /\ log[1].op = "clone"
    /\ LastIs(log, "set")
    /\ LastCall.onClone
    /\ LastCall.path = TagsKey \o <<"[", "1", "]">>
    /\ Content(heap, arg) = TaggedDoc
    /\ GetProp(Content(heap, ret), TagsKey).len = 2

----------------------------------------------------------------------------
(* Claims about deepEqual, checked under SpecEqual *)

\* structural equality of two JSON-like values, by the kind of the value
RECURSIVE StructurallyEqual(_, _)
StructurallyEqual(a, b) ==
    CASE a.k = "object" /\ b.k = "object" ->
            /\ DOMAIN a.p = DOMAIN b.p
            /\ \A key \in DOMAIN a.p : StructurallyEqual(a.p[key], b.p[key])
      [] a.k = "array" /\ b.k = "array" ->
            /\ a.len = b.len
            /\ \A i \in 0..(a.len - 1) :
                   StructurallyEqual(GetProp(a, IndexKey(i)), GetProp(b, IndexKey(i)))
      [] a.k = "string" /\ b.k = "string" -> a.s = b.s
      [] a.k = "number" /\ b.k = "number" -> a.n = b.n
      [] a.k = "null" /\ b.k = "null" -> TRUE
      [] OTHER -> FALSE

\* C21: deepEqual(a, b) is structural equality of JSON-like values: objects
\* by key set and value per key, arrays by length and element per position,
\* an array never equal to an object, values of different primitive types
\* unequal, null equal to null only; and it is reflexive and symmetric.
C21_DeepEqualIsStructural ==
    LastIs(log, "deepEqual")
        => LET c == Last(log).d
           IN /\ c.result = StructurallyEqual(c.a, c.b)
              /\ deepEqual(c.a, c.a)
              /\ c.result = deepEqual(c.b, c.a)

\* deepEqual has answered on an object and a longer one that has all its
\* keys with the same values, and on an array and the object of its keys
C21_Witness ==
    /\ LastIs(log, "deepEqual")
    /\ Last(log).d.a = Obj(<<"a">> :> Num(1))
    /\ Last(log).d.b = Obj((<<"a">> :> Num(1)) @@ (<<"0">> :> Null))
    /\ ~Last(log).d.result

----------------------------------------------------------------------------
(* Claims about the workshop page, checked under SpecPage *)

\* C22: after a successful exportPNG, originalData equals the document that
\* was sent for export, also when the card was edited while the request was
\* in flight (so that such an edit leaves the card dirty).
C22_SavedIsWhatWasSent ==
    LastIs(log, "exportPNG")
        => DeepEqualIn(heap, originalData, Last(log).d)

\* C26: once handleImageChange has replaced the image of the card,
\* hasChanges stays true, also after the timeout of checkChanges has
\* expired, until the card is exported, reset, closed or another is loaded.
C26_ImageChangeStaysDirty ==
    (\E i \in DOMAIN log :
        /\ Truthy(data)
        /\ log[i].op = "image"
        /\ \A j \in (i + 1)..Len(log) : log[j].op # "exportPNG")
        => hasChanges

\* the step is cleanSafeFields / cleanCurrentCard
IsCleanStep == Len(log') = Len(log) + 1 /\ Last(log').op = "clean"

\* C27: a clean operation that finds nothing to clean leaves card.data,
\* hasChanges and the history (its stack with any redo branch, its index)
\* unchanged.
C27_NothingToCleanIsNoOp ==
    [][(IsCleanStep /\ cleanCardFields(heap, data, SAFE_FIELDS).changes = {})
        => /\ Content(heap', data') = Content(heap, data)
           /\ hasChanges' = hasChanges
           /\ StackContents' = StackContents
           /\ index' = index]_vars

\* C28: the busy flags are locks: at most one parse of processFile is in
\* flight at any time and isParsing is true exactly while it is, so it is
\* false again after the parse has ended, by success or by failure, and a
\* file of another type never sets it; likewise at most one exportPNG is in
\* flight and isExporting is true exactly while it is.
C28_BusyFlagsAreLocks ==
    /\ Cardinality(Waiting("parse")) <= 1
    /\ Cardinality(Waiting("export")) <= 1
    /\ isParsing <=> Waiting("parse") # {}
    /\ isExporting <=> Waiting("export") # {}

\* C28 witness: a parse has ended with its card loaded, and a second parse
\* and an export of that card are in flight
C28_Witness ==
    /\ log = <<Op("load", Card("A"))>>
    /\ isParsing /\ isExporting
    /\ Cardinality(Waiting("parse")) = 1
    /\ Cardinality(Waiting("export")) = 1

----------------------------------------------------------------------------
(* Claims about the AI page, checked under SpecAi *)

\* C23: when a workflow that edits the card has left card.data different
\* from originalData, then once it has ended, with success or with an error,
\* and the debounce window has elapsed, hasChanges is true; so after
\* translateCard failed on a later field with an earlier one replaced.
C23_DirtyAfterWorkflow ==
    (awaiting = << >> /\ timeouts = {} /\ ~DeepEqualIn(heap, data, originalData))
        => hasChanges

----------------------------------------------------------------------------
(* Claims about the streaming client, checked under SpecStream *)

TerminalCalls == {i \in DOMAIN log : log[i].op \in {"onDone", "onError"}}

\* C29: for every streaming chat request exactly one terminal callback is
\* invoked, exactly once, onDone or onError and never both, whatever the
\* outcome ([DONE], a finish_reason, an error frame, the end of the stream,
\* an HTTP error, a network error, an abort), and onMessage is never invoked
\* after it.
C29_OneTerminalCallback ==
    /\ Cardinality(TerminalCalls) <= 1
    /\ (arg # Undefined /\ awaiting = << >>) => Cardinality(TerminalCalls) = 1
    /\ \A i \in TerminalCalls : i = Len(log)

====
